---- MODULE Spec2Model ----
(***************************************************************************)
(* Open-addressing hash table with linear probing (HashTable) and its      *)
(* growing subclass (ResizableHashTable), as implemented four times in      *)
(* src/python/{Claude,chatgpt,deepseek,gemini}/*6.py.                       *)
(*                                                                         *)
(* One action models one public call (put, get, del_) run to completion:   *)
(* the probe loop of the method is a recursive operator, and the put of    *)
(* the resizable class includes the _resize it triggers.                   *)
(***************************************************************************)
EXTENDS Integers, Sequences, FiniteSets, TLC

VARIABLES variant, cls, size, _len, _keys, _values, last, ndel, dh

vars == <<variant, cls, size, _len, _keys, _values, last, ndel, dh>>

(***************************************************************************)
(* Bounds of the model.                                                    *)
(***************************************************************************)
\* keys of the calls on a HashTable are 0..MaxKey
MaxKey == 3
\* number of del_ calls made on a ResizableHashTable
MaxDels == 1

(***************************************************************************)
(* Program constants and inputs.                                           *)
(***************************************************************************)
MIN_SIZE == 8

Variants == {"Claude6", "chatgpt6", "deepseek6", "gemini6"}

\* The sentinels are objects distinct from every key.  Keys of the model are
\* naturals, so two negative numbers stand for the two sentinels in _keys,
\* and two strings that are no payload stand for them in _values.
_EMPTY == -1
_DELETED == -2
_EMPTY_VAL == "_EMPTY"
_DELETED_VAL == "_DELETED"

None == "None"
Values == {"a", "b"}

\* capacities given to HashTable(size)
Capacities == {1, 2, 3}

\* keys used on a ResizableHashTable: 0 and MIN_SIZE have the same home slot in
\* a table of MIN_SIZE slots, the keys 2, 3 and 4 have home slots of their own
RKeys == {0, 2, 3, 4, MIN_SIZE}

\* the capacity of the worked example: a prime, and the default of HashTable
ExampleSize == 11

\* keys of the worked example: both have home slot 0
ExampleKeys == {0, ExampleSize}

Keys ==
  IF cls = "ResizableHashTable" THEN RKeys
  ELSE IF size = ExampleSize THEN ExampleKeys
  ELSE 0 .. MaxKey

\* the table as one value, for the operators below
Tbl == [size |-> size, _len |-> _len, _keys |-> _keys, _values |-> _values]

\* HashTable.__init__
NewTable(sz) ==
  [size |-> sz, _len |-> 0,
   _keys |-> [i \in 0 .. sz - 1 |-> _EMPTY],
   _values |-> [i \in 0 .. sz - 1 |-> _EMPTY_VAL]]

_hash(t, key) == key % t.size

\* mutant: the + 1 is forgotten
_rehash_Stays(t, previous_hash) == previous_hash % t.size

\* mutant: the stride is 2
_rehash_StrideTwo(t, previous_hash) == (previous_hash + 2) % t.size

_rehash(t, previous_hash) == (previous_hash + 1) % t.size

(***************************************************************************)
(* HashTable.put: the loop, from slot current_hash on.  The result is the  *)
(* table after the call and whether the call raised ValueError.            *)
(***************************************************************************)
\* mutant: a put of a key that is found leaves the old value in place
RECURSIVE PutLoop_NoOverwrite(_, _, _, _, _)
PutLoop_NoOverwrite(t, key, value, initial_hash, current_hash) ==
  IF t._keys[current_hash] = _EMPTY \/ t._keys[current_hash] = _DELETED
  THEN [t |-> [t EXCEPT !._keys[current_hash] = key,
                        !._values[current_hash] = value,
                        !._len = t._len + 1],
        raised |-> FALSE]
  ELSE IF t._keys[current_hash] = key
  THEN [t |-> t, raised |-> FALSE]
  ELSE LET next_hash == _rehash(t, current_hash)
       IN  IF initial_hash = next_hash
           THEN [t |-> t, raised |-> TRUE]
           ELSE PutLoop_NoOverwrite(t, key, value, initial_hash, next_hash)

\* mutant: a put that has wrapped around takes the home slot instead of
\* raising
RECURSIVE PutLoop_EvictsWhenFull(_, _, _, _, _)
PutLoop_EvictsWhenFull(t, key, value, initial_hash, current_hash) ==
  IF t._keys[current_hash] = _EMPTY \/ t._keys[current_hash] = _DELETED
  THEN [t |-> [t EXCEPT !._keys[current_hash] = key,
                        !._values[current_hash] = value,
                        !._len = t._len + 1],
        raised |-> FALSE]
  ELSE IF t._keys[current_hash] = key
  THEN [t |-> [t EXCEPT !._values[current_hash] = value], raised |-> FALSE]
  ELSE LET next_hash == _rehash(t, current_hash)
       IN  IF initial_hash = next_hash
           THEN [t |-> [t EXCEPT !._keys[initial_hash] = key,
                                 !._values[initial_hash] = value],
                 raised |-> FALSE]
           ELSE PutLoop_EvictsWhenFull(t, key, value, initial_hash, next_hash)

\* mutant: a slot that holds the key is passed over like a slot that holds
\* another key
RECURSIVE PutLoop_PassesOwnKey(_, _, _, _, _)
PutLoop_PassesOwnKey(t, key, value, initial_hash, current_hash) ==
  IF t._keys[current_hash] = _EMPTY \/ t._keys[current_hash] = _DELETED
  THEN [t |-> [t EXCEPT !._keys[current_hash] = key,
                        !._values[current_hash] = value,
                        !._len = t._len + 1],
        raised |-> FALSE]
  ELSE LET next_hash == _rehash(t, current_hash)
       IN  IF initial_hash = next_hash
           THEN [t |-> t, raised |-> TRUE]
           ELSE PutLoop_PassesOwnKey(t, key, value, initial_hash, next_hash)

\* mutant: _len is counted up before the loop has found a slot
RECURSIVE PutLoop_CountsFirst(_, _, _, _, _)
PutLoop_CountsFirst(t, key, value, initial_hash, current_hash) ==
  IF t._keys[current_hash] = _EMPTY \/ t._keys[current_hash] = _DELETED
  THEN [t |-> [t EXCEPT !._keys[current_hash] = key,
                        !._values[current_hash] = value,
                        !._len = t._len + 1],
        raised |-> FALSE]
  ELSE IF t._keys[current_hash] = key
  THEN [t |-> [t EXCEPT !._values[current_hash] = value], raised |-> FALSE]
  ELSE LET next_hash == _rehash(t, current_hash)
       IN  IF initial_hash = next_hash
           THEN [t |-> [t EXCEPT !._len = t._len + 1], raised |-> TRUE]
           ELSE PutLoop_CountsFirst(t, key, value, initial_hash, next_hash)

RECURSIVE PutLoop(_, _, _, _, _)
PutLoop(t, key, value, initial_hash, current_hash) ==
  IF t._keys[current_hash] = _EMPTY \/ t._keys[current_hash] = _DELETED
  THEN [t |-> [t EXCEPT !._keys[current_hash] = key,
                        !._values[current_hash] = value,
                        !._len = t._len + 1],
        raised |-> FALSE]
  ELSE IF t._keys[current_hash] = key
  THEN [t |-> [t EXCEPT !._values[current_hash] = value], raised |-> FALSE]
  ELSE LET next_hash == _rehash(t, current_hash)
       IN  IF initial_hash = next_hash
           THEN [t |-> t, raised |-> TRUE]
           ELSE PutLoop(t, key, value, initial_hash, next_hash)

\* deepseek6 alone refuses every put once _len has reached size
PutPrecheck(v, t) == v = "deepseek6" /\ t._len >= t.size

\* mutant: the probe starts at slot 0 instead of the home slot
HashTable_put_FromZero(v, t, key, value) ==
  IF PutPrecheck(v, t)
  THEN [t |-> t, raised |-> TRUE]
  ELSE PutLoop(t, key, value, 0, 0)

HashTable_put(v, t, key, value) ==
  IF PutPrecheck(v, t)
  THEN [t |-> t, raised |-> TRUE]
  ELSE PutLoop(t, key, value, _hash(t, key), _hash(t, key))

(***************************************************************************)
(* HashTable.get: the value found, or None.                                *)
(***************************************************************************)
\* mutant: the first slot that is not Empty answers, whatever key it holds
RECURSIVE GetLoop_FirstOccupied(_, _, _, _)
GetLoop_FirstOccupied(t, key, initial_hash, current_hash) ==
  IF t._keys[current_hash] = _EMPTY
  THEN None
  ELSE t._values[current_hash]

\* mutant: an Empty slot answers with its own value, the sentinel
RECURSIVE GetLoop_ReturnsSentinel(_, _, _, _)
GetLoop_ReturnsSentinel(t, key, initial_hash, current_hash) ==
  IF t._keys[current_hash] = _EMPTY
  THEN t._values[current_hash]
  ELSE IF t._keys[current_hash] = key
  THEN t._values[current_hash]
  ELSE LET next_hash == _rehash(t, current_hash)
       IN  IF initial_hash = next_hash
           THEN None
           ELSE GetLoop_ReturnsSentinel(t, key, initial_hash, next_hash)

RECURSIVE GetLoop(_, _, _, _)
GetLoop(t, key, initial_hash, current_hash) ==
  IF t._keys[current_hash] = _EMPTY
  THEN None
  ELSE IF t._keys[current_hash] = key
  THEN t._values[current_hash]
  ELSE LET next_hash == _rehash(t, current_hash)
       IN  IF initial_hash = next_hash
           THEN None
           ELSE GetLoop(t, key, initial_hash, next_hash)

HashTable_get(t, key) == GetLoop(t, key, _hash(t, key), _hash(t, key))

(***************************************************************************)
(* HashTable.del_: the table after the call and the value returned, which  *)
(* is None on each of the three return statements.                         *)
(***************************************************************************)
\* mutant: the slot of a deleted key is made Empty again
RECURSIVE DelLoop_LeavesEmpty(_, _, _, _)
DelLoop_LeavesEmpty(t, key, initial_hash, current_hash) ==
  IF t._keys[current_hash] = _EMPTY
  THEN [t |-> t, ret |-> None]
  ELSE IF t._keys[current_hash] = key
  THEN [t |-> [t EXCEPT !._keys[current_hash] = _EMPTY,
                        !._values[current_hash] = _EMPTY_VAL,
                        !._len = t._len - 1],
        ret |-> None]
  ELSE LET next_hash == _rehash(t, current_hash)
       IN  IF initial_hash = next_hash
           THEN [t |-> t, ret |-> None]
           ELSE DelLoop_LeavesEmpty(t, key, initial_hash, next_hash)

\* mutant: del_ reports whether it found the key
RECURSIVE DelLoop_ReturnsFound(_, _, _, _)
DelLoop_ReturnsFound(t, key, initial_hash, current_hash) ==
  IF t._keys[current_hash] = _EMPTY
  THEN [t |-> t, ret |-> "False"]
  ELSE IF t._keys[current_hash] = key
  THEN [t |-> [t EXCEPT !._keys[current_hash] = _DELETED,
                        !._values[current_hash] = _DELETED_VAL,
                        !._len = t._len - 1],
        ret |-> "True"]
  ELSE LET next_hash == _rehash(t, current_hash)
       IN  IF initial_hash = next_hash
           THEN [t |-> t, ret |-> "False"]
           ELSE DelLoop_ReturnsFound(t, key, initial_hash, next_hash)

\* mutant: only the key of the slot is replaced by the sentinel
RECURSIVE DelLoop_KeepsValue(_, _, _, _)
DelLoop_KeepsValue(t, key, initial_hash, current_hash) ==
  IF t._keys[current_hash] = _EMPTY
  THEN [t |-> t, ret |-> None]
  ELSE IF t._keys[current_hash] = key
  THEN [t |-> [t EXCEPT !._keys[current_hash] = _DELETED,
                        !._len = t._len - 1],
        ret |-> None]
  ELSE LET next_hash == _rehash(t, current_hash)
       IN  IF initial_hash = next_hash
           THEN [t |-> t, ret |-> None]
           ELSE DelLoop_KeepsValue(t, key, initial_hash, next_hash)

RECURSIVE DelLoop(_, _, _, _)
DelLoop(t, key, initial_hash, current_hash) ==
  IF t._keys[current_hash] = _EMPTY
  THEN [t |-> t, ret |-> None]
  ELSE IF t._keys[current_hash] = key
  THEN [t |-> [t EXCEPT !._keys[current_hash] = _DELETED,
                        !._values[current_hash] = _DELETED_VAL,
                        !._len = t._len - 1],
        ret |-> None]
  ELSE LET next_hash == _rehash(t, current_hash)
       IN  IF initial_hash = next_hash
           THEN [t |-> t, ret |-> None]
           ELSE DelLoop(t, key, initial_hash, next_hash)

HashTable_del_(t, key) == DelLoop(t, key, _hash(t, key), _hash(t, key))

(***************************************************************************)
(* The slots the three loops examine, in the order they examine them.      *)
(***************************************************************************)
RECURSIVE PutProbes(_, _, _, _)
PutProbes(t, key, initial_hash, current_hash) ==
  IF \/ t._keys[current_hash] = _EMPTY
     \/ t._keys[current_hash] = _DELETED
     \/ t._keys[current_hash] = key
  THEN <<current_hash>>
  ELSE LET next_hash == _rehash(t, current_hash)
       IN  IF initial_hash = next_hash
           THEN <<current_hash>>
           ELSE <<current_hash>> \o PutProbes(t, key, initial_hash, next_hash)

HashTable_put_probes(v, t, key) ==
  IF PutPrecheck(v, t)
  THEN <<>>
  ELSE PutProbes(t, key, _hash(t, key), _hash(t, key))

RECURSIVE GetProbes(_, _, _, _)
GetProbes(t, key, initial_hash, current_hash) ==
  IF t._keys[current_hash] = _EMPTY \/ t._keys[current_hash] = key
  THEN <<current_hash>>
  ELSE LET next_hash == _rehash(t, current_hash)
       IN  IF initial_hash = next_hash
           THEN <<current_hash>>
           ELSE <<current_hash>> \o GetProbes(t, key, initial_hash, next_hash)

HashTable_get_probes(t, key) == GetProbes(t, key, _hash(t, key), _hash(t, key))

RECURSIVE DelProbes(_, _, _, _)
DelProbes(t, key, initial_hash, current_hash) ==
  IF t._keys[current_hash] = _EMPTY \/ t._keys[current_hash] = key
  THEN <<current_hash>>
  ELSE LET next_hash == _rehash(t, current_hash)
       IN  IF initial_hash = next_hash
           THEN <<current_hash>>
           ELSE <<current_hash>> \o DelProbes(t, key, initial_hash, next_hash)

HashTable_del_probes(t, key) == DelProbes(t, key, _hash(t, key), _hash(t, key))

(***************************************************************************)
(* ResizableHashTable.put and _resize.  The result also counts the _resize *)
(* calls made (resizes).                                                   *)
(***************************************************************************)
\* the test after super().put: true division in Claude6 and gemini6, the
\* float 2/3 in deepseek6 (capacities are 8 * 2^n, never a multiple of 3, so
\* both are 3 * _len >= 2 * size), floor division in chatgpt6
\* mutant: the table grows only once it is full
NeedsResize_WhenFull(v, t) == t._len >= t.size

NeedsResize(v, t) ==
  IF v = "chatgpt6"
  THEN t._len >= (t.size * 2) \div 3
  ELSE 3 * t._len >= 2 * t.size

\* _resize replays through self.put (which tests the threshold again) in
\* Claude6, chatgpt6 and gemini6, and through super().put in deepseek6
ReplayChecks(v) == v # "deepseek6"

\* the outcome r of HashTable.put, as the outcome of a put that made no _resize
NoResize(r) == [t |-> r.t, raised |-> r.raised, resizes |-> 0]

RECURSIVE Resizable_put(_, _, _, _)
RECURSIVE Replay(_, _, _, _, _)
RECURSIVE _resize(_, _)

Resizable_put(v, t, key, value) ==
  LET r == HashTable_put(v, t, key, value)
  IN  IF r.raised
      THEN NoResize(r)
      ELSE IF NeedsResize(v, r.t)
      THEN _resize(v, r.t)
      ELSE NoResize(r)

\* the for loop of _resize over zip(old_keys, old_values), from index i on
Replay(v, old, i, t, n) ==
  IF i >= old.size
  THEN [t |-> t, raised |-> FALSE, resizes |-> n]
  ELSE IF old._keys[i] = _EMPTY \/ old._keys[i] = _DELETED
  THEN Replay(v, old, i + 1, t, n)
  ELSE LET r == IF ReplayChecks(v)
                THEN Resizable_put(v, t, old._keys[i], old._values[i])
                ELSE NoResize(HashTable_put(v, t, old._keys[i], old._values[i]))
       IN  IF r.raised
           THEN [t |-> r.t, raised |-> TRUE, resizes |-> n + r.resizes]
           ELSE Replay(v, old, i + 1, r.t, n + r.resizes)

\* mutant: _resize forgets to reset _len before it replays the entries
_resize_KeepsLen(v, t) ==
  Replay(v, t, 0, [NewTable(t.size * 2) EXCEPT !._len = t._len], 1)

\* mutant: the new table has four times the capacity
_resize_Quadruples(v, t) == Replay(v, t, 0, NewTable(t.size * 4), 1)

\* mutant: the replay starts at the second slot of the old table
_resize_SkipsFirstSlot(v, t) == Replay(v, t, 1, NewTable(t.size * 2), 1)

_resize(v, t) == Replay(v, t, 0, NewTable(t.size * 2), 1)

(***************************************************************************)
(* The calls.  last records the call just made and its outcome.            *)
(***************************************************************************)
NoCall == [op |-> "init", key |-> 0, value |-> None, ret |-> None,
           raised |-> FALSE, resizes |-> 0]

\* the result of a call that never returns
NoReturn == "NoReturn"

\* the last call has returned or raised: the caller can make another one
Running == last.ret # NoReturn

SetTable(t) ==
  /\ size' = t.size
  /\ _len' = t._len
  /\ _keys' = t._keys
  /\ _values' = t._values

put(key, value) ==
  /\ Running
  /\ \E r \in {IF cls = "ResizableHashTable"
              THEN Resizable_put(variant, Tbl, key, value)
              ELSE NoResize(HashTable_put(variant, Tbl, key, value))} :
         /\ SetTable(r.t)
         /\ last' = [op |-> "put", key |-> key, value |-> value, ret |-> None,
                     raised |-> r.raised, resizes |-> r.resizes]
  /\ UNCHANGED <<variant, cls, ndel, dh>>

\* mutant: get takes the entry out of the table
get_Removes(key) ==
  /\ Running
  /\ last' = [op |-> "get", key |-> key, value |-> None,
              ret |-> HashTable_get(Tbl, key), raised |-> FALSE, resizes |-> 0]
  /\ SetTable(HashTable_del_(Tbl, key).t)
  /\ UNCHANGED <<variant, cls, ndel, dh>>

get(key) ==
  /\ Running
  /\ last' = [op |-> "get", key |-> key, value |-> None,
              ret |-> HashTable_get(Tbl, key), raised |-> FALSE, resizes |-> 0]
  /\ UNCHANGED <<variant, cls, size, _len, _keys, _values, ndel, dh>>

\* the tables whose del_ calls are counted, and capped at MaxDels
CountsDels == cls = "ResizableHashTable" \/ size = ExampleSize

del_(key) ==
  /\ Running
  /\ CountsDels => ndel < MaxDels
  /\ ndel' = IF CountsDels THEN ndel + 1 ELSE ndel
  /\ \E r \in {HashTable_del_(Tbl, key)} :
         /\ SetTable(r.t)
         /\ last' = [op |-> "del_", key |-> key, value |-> None, ret |-> r.ret,
                     raised |-> FALSE, resizes |-> 0]
  /\ UNCHANGED <<variant, cls, dh>>

Slots(t) == 0 .. t.size - 1

Occupied(t, i) == t._keys[i] # _EMPTY /\ t._keys[i] # _DELETED

\* chatgpt6 and deepseek6 define __contains__; Claude6 and gemini6 define
\* __getitem__, __setitem__, __delitem__ and __len__ only
HasContains(v) == v \in {"chatgpt6", "deepseek6"}

\* __contains__ of chatgpt6 and deepseek6: self.get(key) is not None
__contains__(t, key) ==
  IF HashTable_get(t, key) # None THEN "True" ELSE "False"

\* x == key for a payload x that __getitem__ returned: the payloads of the
\* model are the strings of Values and None, the keys are integers
PayloadIsKey(x, key) == FALSE

\* "key in map" on a class with __getitem__ and neither __contains__ nor
\* __iter__: Python compares key with map[0], map[1], map[2], ... and stops
\* at the first equal payload or at an IndexError.  __getitem__ is get, which
\* raises nothing and returns None for an absent index, so the iteration
\* ends only if some payload equals the key.
IterateGetitem(t, key) ==
  IF \E i \in Slots(t) : Occupied(t, i)
                          /\ PayloadIsKey(HashTable_get(t, t._keys[i]), key)
  THEN "True"
  ELSE NoReturn

key_in_map(v, t, key) ==
  IF HasContains(v) THEN __contains__(t, key) ELSE IterateGetitem(t, key)

\* key in map
contains(key) ==
  /\ Running
  /\ last' = [op |-> "in", key |-> key, value |-> None,
              ret |-> key_in_map(variant, Tbl, key), raised |-> FALSE,
              resizes |-> 0]
  /\ UNCHANGED <<variant, cls, size, _len, _keys, _values, ndel, dh>>

(***************************************************************************)
(* DoubleHash: a table of size_table slots, each None or a key, with the   *)
(* ceiling lim_charge of its load factor (a fraction <<n, d>>), in dh.     *)
(* The base class HashTable of the DoubleHash module and the functions     *)
(* check_prime and next_prime are imported: they follow the description of *)
(* the core table and of the secondary prime.                              *)
(***************************************************************************)
DHVariants == {"Claude1", "chatgpt1", "deepseek1", "gemini1", "Copilot1"}

\* None, as the content of a slot and as the value returned
NONE == -1

\* returned by no call: the loop of the call never ends
HANGS == -2

\* the largest key and the largest data of a call
MaxData == 3

DHSizes == {1, 2, 3, 4}

LimCharges == {<<3, 4>>}

DHKeys == IF dh.size_table = ExampleSize THEN ExampleKeys ELSE 0 .. MaxData

DHSlots(t) == 0 .. t.size_table - 1

check_prime(number) ==
  number >= 2 /\ \A d \in 2 .. number - 1 : number % d # 0

\* the next prime strictly greater than value
RECURSIVE next_prime(_)
next_prime(value) ==
  IF check_prime(value + 1) THEN value + 1 ELSE next_prime(value + 1)

\* home slot
hash_function(t, data) == data % t.size_table

\* count of the slots that are not None
Count(t) == Cardinality({i \in DHSlots(t) : t.values[i] # NONE})

\* self.balanced_factor() >= self.lim_charge, the load factor being
\* count / size_table
LoadAtCeiling(t) ==
  Count(t) * t.lim_charge[2] >= t.lim_charge[1] * t.size_table

_get_secondary_prime(t, value) ==
  LET hash_mod == value % t.size_table
  IN  IF check_prime(hash_mod) THEN hash_mod ELSE next_prime(hash_mod)

\* mutant: the remainder itself is the step
_calculate_second_hash_Remainder(t, key, data) ==
  LET prime == _get_secondary_prime(t, key)
  IN  data % prime

_calculate_second_hash(t, key, data) ==
  LET prime == _get_secondary_prime(t, key)
  IN  prime - (data % prime)

_calculate_probe_position(t, key, data, iteration) ==
  LET step == _calculate_second_hash(t, key, data)
  IN  (iteration * step) % t.size_table

\* Claude1 returns None when the load factor has reached lim_charge and
\* probes otherwise; chatgpt1, deepseek1, gemini1 and Copilot1 probe when it
\* has reached lim_charge and return None otherwise
GivesUpAtCeiling(v) == v = "Claude1"

\* the while loop of _collision_resolution.  No statement of the loop
\* changes the table, and the position of attempt iteration + size_table
\* is the position of attempt iteration: a loop that has made size_table
\* attempts without leaving makes the same attempts again, for ever.
RECURSIVE ResolveLoop(_, _, _, _, _, _)
ResolveLoop(v, t, key, data, position, iteration) ==
  IF t.values[position] = NONE \/ t.values[position] = key
  THEN [ret |-> position, probes |-> iteration - 1]
  ELSE IF LoadAtCeiling(t) = GivesUpAtCeiling(v)
  THEN [ret |-> NONE, probes |-> iteration - 1]
  ELSE IF iteration > t.size_table
  THEN [ret |-> HANGS, probes |-> iteration - 1]
  ELSE ResolveLoop(v, t, key, data,
                   _calculate_probe_position(t, key, data, iteration),
                   iteration + 1)

_collision_resolution(v, t, key, data) ==
  ResolveLoop(v, t, key, data, hash_function(t, data), 1)

NoDHCall == [key |-> NONE, data |-> NONE, ret |-> NONE, probes |-> 0]

NewDoubleHash(sz, lc) ==
  [size_table |-> sz, values |-> [i \in 0 .. sz - 1 |-> NONE],
   lim_charge |-> lc, call |-> NoDHCall]

\* put of the core table: the key is written to the slot that
\* _collision_resolution returns; None leaves the table as it is (the table
\* is treated as full)
dh_put(key, data) ==
  /\ cls = "DoubleHash"
  /\ dh.call.ret # HANGS
  /\ \E r \in {_collision_resolution(variant, dh, key, data)} :
        dh' = [dh EXCEPT
                 !.values = IF r.ret \in DHSlots(dh)
                            THEN [@ EXCEPT ![r.ret] = key]
                            ELSE @,
                 !.call = [key |-> key, data |-> data, ret |-> r.ret,
                           probes |-> r.probes]]
  /\ UNCHANGED <<variant, cls, size, _len, _keys, _values, last, ndel>>

\* no DoubleHash table is in use
NoDoubleHash == NewDoubleHash(0, <<0, 1>>)

\* HashTable(size) for the fixed-capacity class, ResizableHashTable() for the
\* growing one
InitOf(classes) ==
  /\ variant \in Variants
  /\ cls \in classes
  /\ \E t \in IF cls = "ResizableHashTable"
              THEN {NewTable(MIN_SIZE)}
              ELSE {NewTable(sz) : sz \in Capacities} :
           /\ size = t.size
           /\ _len = t._len
           /\ _keys = t._keys
           /\ _values = t._values
  /\ last = NoCall
  /\ ndel = 0
  /\ dh = NoDoubleHash

Init == InitOf({"HashTable"})

InitResizable == InitOf({"ResizableHashTable"})

InitAll == InitOf({"HashTable", "ResizableHashTable"})

Next ==
  \/ \E key \in Keys, value \in Values : put(key, value)
  \/ \E key \in Keys : get(key)
  \/ \E key \in Keys : del_(key)
  \/ \E key \in Keys : contains(key)

\* calls on a fixed-capacity HashTable
Spec == Init /\ [][Next]_vars

\* calls on a ResizableHashTable
SpecResizable == InitResizable /\ [][Next]_vars

\* calls on a table of either class
SpecAll == InitAll /\ [][Next]_vars

\* DoubleHash(size_table) with the ceiling lim_charge
InitDoubleHash(sizes) ==
  /\ variant \in DHVariants
  /\ cls = "DoubleHash"
  /\ dh \in {NewDoubleHash(sz, lc) : sz \in sizes, lc \in LimCharges}
  /\ size = 1
  /\ _len = 0
  /\ _keys = NewTable(1)._keys
  /\ _values = NewTable(1)._values
  /\ last = NoCall
  /\ ndel = 0

NextDoubleHash == \E key \in DHKeys, data \in DHKeys : dh_put(key, data)

\* calls on a DoubleHash table
SpecDoubleHash == InitDoubleHash(DHSizes) /\ [][NextDoubleHash]_vars

\* HashTable(11) or DoubleHash(11)
InitExample ==
  \/ /\ variant \in Variants
     /\ cls = "HashTable"
     /\ size = ExampleSize
     /\ _len = 0
     /\ _keys = NewTable(ExampleSize)._keys
     /\ _values = NewTable(ExampleSize)._values
     /\ last = NoCall
     /\ ndel = 0
     /\ dh = NoDoubleHash
  \/ InitDoubleHash({ExampleSize})

NextExample ==
  \/ cls = "HashTable" /\ Next
  \/ NextDoubleHash

\* calls on a table of capacity 11, under either probing strategy
SpecExample == InitExample /\ [][NextExample]_vars

NextPuts == \E key \in Keys, value \in Values : put(key, value)

\* put calls only, on a fixed-capacity HashTable
SpecPuts == Init /\ [][NextPuts]_vars

\* the value a growth run puts for key
GrowValue(key) == IF key % 2 = 0 THEN "a" ELSE "b"

\* keys of the runs that resize a table holding tombstones: 0 and 8 share a
\* home slot at capacity 8
ResizeKeys == (0 .. 5) \cup {MIN_SIZE}

NextResize ==
  \/ \E key \in ResizeKeys : put(key, GrowValue(key))
  \/ \E key \in ResizeKeys : del_(key)

\* puts and a bounded number of deletions on a ResizableHashTable, with
\* enough keys to resize a table that holds a tombstone
SpecResize == InitResizable /\ [][NextResize]_vars

\* the distinct keys of a growth run: enough of them for two _resize calls
GrowKeys == 0 .. 10

\* put of a key the table does not hold
grow_put(key) ==
  /\ \A i \in Slots(Tbl) : _keys[i] # key
  /\ put(key, GrowValue(key))

NextGrow == \E key \in GrowKeys : grow_put(key)

\* puts of distinct keys, and no deletion, on a ResizableHashTable that
\* starts empty
SpecGrow == InitResizable /\ [][NextGrow]_vars

(***************************************************************************)
(* Vocabulary of the properties.                                           *)
(***************************************************************************)
\* some Occupied slot holds key
Stored(t, key) == \E i \in Slots(t) : t._keys[i] = key

AllKeys == (0 .. MaxKey) \cup RKeys

(***************************************************************************)
(* C1: no two Occupied slots of a fixed-capacity HashTable hold the same   *)
(* key, after any sequence of put, get and del_ calls.                     *)
(***************************************************************************)
C1_NoDuplicateKeys ==
  \A i \in Slots(Tbl), j \in Slots(Tbl) :
    (i # j /\ Occupied(Tbl, i) /\ Occupied(Tbl, j)) => _keys[i] # _keys[j]

(***************************************************************************)
(* C2: after a put(k, v) on a HashTable that did not raise, a get(k) made  *)
(* as the very next call returns v, also when the table holds Deleted      *)
(* slots.                                                                  *)
(***************************************************************************)
C2_PutThenGet ==
  (last.op = "put" /\ ~last.raised) => HashTable_get(Tbl, last.key) = last.value

\* a put went through while a tombstone lies in the table and the key was
\* stored away from its home slot
C2_Witness ==
  /\ last.op = "put" /\ ~last.raised
  /\ \E i \in Slots(Tbl) : _keys[i] = _DELETED
  /\ _keys[_hash(Tbl, last.key)] # last.key
  /\ HashTable_get(Tbl, last.key) = last.value

(***************************************************************************)
(* C3: when get(k) finds k, put(k, v2) overwrites: len() is the same       *)
(* before and after the call and the next get(k) returns v2, after any     *)
(* earlier put and del_ calls.                                             *)
(***************************************************************************)
C3_OverwriteKeepsLen ==
  [][(last'.op = "put" /\ HashTable_get(Tbl, last'.key) # None)
       => (_len' = _len /\ HashTable_get(Tbl', last'.key) = last'.value)]_vars

(***************************************************************************)
(* C4: after del_(k) returns, get(k) returns None, and it keeps returning  *)
(* None until the next put(k, ...).                                        *)
(***************************************************************************)
C4_DeletedStaysAbsent ==
  /\ [](last.op = "del_" => HashTable_get(Tbl, last.key) = None)
  /\ [][\A k \in AllKeys :
          (HashTable_get(Tbl, k) = None /\ ~(last'.op = "put" /\ last'.key = k))
            => HashTable_get(Tbl', k) = None]_vars

(***************************************************************************)
(* C5: between calls, on a HashTable and on a ResizableHashTable, _len is  *)
(* the number of Occupied slots of _keys.                                  *)
(***************************************************************************)
C5_LenCountsOccupied ==
  _len = Cardinality({i \in Slots(Tbl) : Occupied(Tbl, i)})

\* a ResizableHashTable right after a put that resized a table holding a
\* tombstone
C5_Witness ==
  /\ cls = "ResizableHashTable"
  /\ last.op = "put" /\ last.resizes >= 1
  /\ ndel >= 1
  /\ _len >= 5
  /\ C5_LenCountsOccupied

(***************************************************************************)
(* C6: del_ returns a boolean, True exactly when the key was present       *)
(* before the call and False when it was absent.                           *)
(***************************************************************************)
C6_DelReturnsWhetherPresent ==
  [][last'.op = "del_"
       => last'.ret = (IF Stored(Tbl, last'.key) THEN "True" ELSE "False")]_vars

\* C6 as the code has it: del_ returns None whether or not the key was
\* present; what tells the two outcomes apart is len(), which drops by one
\* exactly when the key was present
C6_DelReturnsNone ==
  [][last'.op = "del_"
       => /\ last'.ret = None
          /\ Stored(Tbl, last'.key) => _len' = _len - 1
          /\ ~Stored(Tbl, last'.key) => _len' = _len]_vars

\* a del_ of a key that was present has returned None
C6_Witness ==
  /\ last.op = "del_" /\ last.ret = None
  /\ \E i \in Slots(Tbl) : _keys[i] = _DELETED

(***************************************************************************)
(* C7: for two distinct keys k1 and k2, both present, del_(k1) leaves the  *)
(* result of get(k2) as it was: the slot of k1 becomes Deleted, never      *)
(* Empty, and get probes past Deleted slots.                               *)
(***************************************************************************)
C7_DeleteKeepsOtherKeys ==
  [][last'.op = "del_"
       => /\ \A k2 \in AllKeys \ {last'.key} :
               HashTable_get(Tbl', k2) = HashTable_get(Tbl, k2)
          /\ \A i \in Slots(Tbl) :
               _keys'[i] # _keys[i] => _keys'[i] = _DELETED]_vars

\* del_(k1) has just put a tombstone on the home slot of a key that is stored
\* further along the probe chain and is still found
C7_Witness ==
  /\ last.op = "del_"
  /\ \E i \in Slots(Tbl) :
       /\ Occupied(Tbl, i)
       /\ _keys[i] # last.key
       /\ _hash(Tbl, _keys[i]) # i
       /\ _hash(Tbl, _keys[i]) = _hash(Tbl, last.key)
       /\ _keys[_hash(Tbl, _keys[i])] = _DELETED
       /\ HashTable_get(Tbl, _keys[i]) = _values[i]

(***************************************************************************)
(* C8: in each of the four variants, put(k, v) on a fixed-capacity         *)
(* HashTable raises ValueError exactly when every slot is Occupied by a    *)
(* key other than k; a put of a key that is present succeeds even when no  *)
(* slot is Empty or Deleted.                                               *)
(***************************************************************************)
C8_RaisesIffFullOfOthers ==
  [][last'.op = "put"
       => (last'.raised <=>
             \A i \in Slots(Tbl) : Occupied(Tbl, i) /\ _keys[i] # last'.key)]_vars

(***************************************************************************)
(* C9: once every slot of a HashTable holds one of size distinct keys, a   *)
(* put of any further key raises ValueError; with capacity 3, the keys 0,  *)
(* 1 and 2 go in and key 3 is refused.                                     *)
(***************************************************************************)
FullOfDistinctKeys(t) ==
  /\ \A i \in Slots(t) : Occupied(t, i)
  /\ \A i \in Slots(t), j \in Slots(t) : i # j => t._keys[i] # t._keys[j]

C9_FurtherKeyRaises ==
  [][(last'.op = "put" /\ FullOfDistinctKeys(Tbl) /\ ~Stored(Tbl, last'.key))
       => (last'.raised /\ Tbl' = Tbl)]_vars

\* capacity 3 holding the keys 0, 1, 2 in their home slots, and put(3, ...)
\* has just raised
C9_Witness ==
  /\ size = 3
  /\ _keys = [i \in 0 .. 2 |-> i]
  /\ last.op = "put" /\ last.key = 3 /\ last.raised

(***************************************************************************)
(* C10: a _resize of a ResizableHashTable preserves the mapping: get(k) is *)
(* the same right before and right after it for every key k, and so is     *)
(* len().                                                                  *)
(***************************************************************************)
\* the table as super().put leaves it, right before the _resize
BeforeResize(key, value) == HashTable_put(variant, Tbl, key, value).t

C10_ResizePreservesMapping ==
  [][(last'.op = "put" /\ last'.resizes >= 1)
       => /\ _len' = BeforeResize(last'.key, last'.value)._len
          /\ \A k \in AllKeys :
               HashTable_get(Tbl', k)
                 = HashTable_get(BeforeResize(last'.key, last'.value), k)]_vars

(***************************************************************************)
(* C11: on a ResizableHashTable that starts empty, puts of distinct keys   *)
(* with no deletion, carried through two resizes, leave every key put      *)
(* retrievable with the value put for it and len() equal to the number of  *)
(* keys put: each put adds one to len(), makes its key retrievable with    *)
(* its value and changes the answer of get for no other key.               *)
(***************************************************************************)
C11_GrowthKeepsEveryKey ==
  /\ [](/\ _len = Cardinality({k \in GrowKeys : HashTable_get(Tbl, k) # None})
        /\ \A k \in GrowKeys : HashTable_get(Tbl, k) \in {None, GrowValue(k)})
  /\ [][last'.op = "put" =>
          /\ ~last'.raised
          /\ _len' = _len + 1
          /\ \A k \in GrowKeys :
                HashTable_get(Tbl', k) = IF k = last'.key
                                        THEN last'.value
                                        ELSE HashTable_get(Tbl, k)]_vars

\* eleven distinct keys are in, the table has doubled twice, and each key
\* answers with its value
C11_Witness ==
  /\ cls = "ResizableHashTable"
  /\ size = 4 * MIN_SIZE
  /\ _len = Cardinality(GrowKeys)
  /\ \A k \in GrowKeys : HashTable_get(Tbl, k) = GrowValue(k)

(***************************************************************************)
(* C12: on a ResizableHashTable no put raises ValueError("Table is full"), *)
(* neither the put the caller makes nor a put replayed inside _resize.     *)
(***************************************************************************)
C12_ResizablePutNeverRaises ==
  (cls = "ResizableHashTable" /\ last.op = "put") => ~last.raised

\* a put ran _resize and every replayed put went through: the table has
\* doubled and holds the entries of the old one
C12_Witness ==
  /\ cls = "ResizableHashTable"
  /\ last.op = "put" /\ last.resizes >= 1 /\ ~last.raised
  /\ size = 2 * MIN_SIZE
  /\ _len >= 5

(***************************************************************************)
(* C13: in every ResizableHashTable variant a put runs _resize exactly     *)
(* when, after its insertion, count / size >= 2/3, at no smaller count,    *)
(* and the resize sets the capacity to exactly twice the size.             *)
(***************************************************************************)
C13_ResizeExactlyAtTwoThirds ==
  [][(cls = "ResizableHashTable" /\ last'.op = "put" /\ ~last'.raised) =>
       LET mid == BeforeResize(last'.key, last'.value)
       IN  /\ last'.resizes >= 1 <=> 3 * mid._len >= 2 * mid.size
           /\ last'.resizes = 0 => size' = size
           /\ last'.resizes = 1 => size' = 2 * size]_vars

(***************************************************************************)
(* C14: on the linear-probing HashTable, in every reachable state and for  *)
(* every key, put, get and del_ examine at most size slots: the slots      *)
(* start at the home slot, advance by one modulo size and never repeat,    *)
(* and a loop that meets no stopping slot examines each slot exactly once, *)
(* after which put raises and get and del_ report the key as not found.    *)
(***************************************************************************)
ProbesInOrder(t, key, s) ==
  /\ Len(s) <= t.size
  /\ Len(s) >= 1 => s[1] = key % t.size
  /\ \A n \in 1 .. Len(s) - 1 : s[n + 1] = (s[n] + 1) % t.size
  /\ \A m \in 1 .. Len(s), n \in 1 .. Len(s) : m # n => s[m] # s[n]

C14_ProbesAtMostSizeSlots ==
  \A key \in Keys :
    /\ ProbesInOrder(Tbl, key, HashTable_put_probes(variant, Tbl, key))
    /\ ProbesInOrder(Tbl, key, HashTable_get_probes(Tbl, key))
    /\ ProbesInOrder(Tbl, key, HashTable_del_probes(Tbl, key))
    /\ (\A i \in Slots(Tbl) : Occupied(Tbl, i) /\ _keys[i] # key) =>
          /\ ~PutPrecheck(variant, Tbl) =>
                Len(HashTable_put_probes(variant, Tbl, key)) = size
          /\ \A value \in Values :
                HashTable_put(variant, Tbl, key, value).raised
    /\ (\A i \in Slots(Tbl) : _keys[i] # _EMPTY /\ _keys[i] # key) =>
          /\ Len(HashTable_get_probes(Tbl, key)) = size
          /\ Len(HashTable_del_probes(Tbl, key)) = size
          /\ HashTable_get(Tbl, key) = None
          /\ HashTable_del_(Tbl, key).t = Tbl

\* a table of three slots, each Occupied by a key other than the one
\* asked for, and one of three slots holding a tombstone and two other keys
C14_Witness ==
  /\ size = 3
  /\ \E key \in Keys :
        /\ \A i \in Slots(Tbl) : _keys[i] # _EMPTY /\ _keys[i] # key
        /\ Len(HashTable_get_probes(Tbl, key)) = 3
        /\ HashTable_get(Tbl, key) = None
        /\ \/ \A i \in Slots(Tbl) : Occupied(Tbl, i)
           \/ \E i \in Slots(Tbl) : _keys[i] = _DELETED

(***************************************************************************)
(* Vocabulary of the DoubleHash properties.                                *)
(***************************************************************************)
IsPrime(n) == n >= 2 /\ \A d \in 2 .. n - 1 : n % d # 0

\* the call dh'.call met an occupied home slot that holds another key
Collided(t, c) ==
  /\ t.values[hash_function(t, c.data)] # NONE
  /\ t.values[hash_function(t, c.data)] # c.key

(***************************************************************************)
(* C15: the collision-resolution loop of DoubleHash ends for every table   *)
(* state, key and data: after at most size probe attempts it returns a     *)
(* slot or None, and never probes for ever.                                *)
(***************************************************************************)
C15_ResolutionTerminates ==
  cls = "DoubleHash" =>
    /\ dh.call.ret # HANGS
    /\ dh.call.probes <= dh.size_table

(***************************************************************************)
(* C16: in every DoubleHash variant the collision-resolution entry point   *)
(* probes only while the load factor is below lim_charge, and returns None *)
(* as soon as it meets a collision with the load factor at or above it.    *)
(***************************************************************************)
C16_ProbesOnlyBelowCeiling ==
  [][(cls = "DoubleHash" /\ dh' # dh) =>
       /\ dh'.call.probes >= 1 => ~LoadAtCeiling(dh)
       /\ (Collided(dh, dh'.call) /\ LoadAtCeiling(dh)) =>
             (dh'.call.ret = NONE /\ dh'.call.probes = 0)]_vars

(***************************************************************************)
(* C17: when the table size is a prime, the stride h2 is a multiple of     *)
(* size for no key and data, so the probe positions (i * h2) mod size of   *)
(* the attempts i = 1 .. size are pairwise distinct and cover every slot.  *)
(***************************************************************************)
C17_PrimeSizeCoversEverySlot ==
  (cls = "DoubleHash" /\ IsPrime(dh.size_table)) =>
    \A key \in DHKeys, data \in DHKeys :
      /\ _calculate_second_hash(dh, key, data) % dh.size_table # 0
      /\ {_calculate_probe_position(dh, key, data, i) :
             i \in 1 .. dh.size_table} = DHSlots(dh)

C19_ExampleTwoSlots ==
  [][/\ (/\ cls = "HashTable"
         /\ Tbl = HashTable_put(variant, NewTable(ExampleSize), 0, "a").t
         /\ last'.op = "put" /\ last'.key = ExampleSize /\ last'.value = "b")
        => /\ ~last'.raised
           /\ \E i \in Slots(Tbl'), j \in Slots(Tbl') :
                 i # j /\ _keys'[i] = 0 /\ _keys'[j] = ExampleSize
           /\ HashTable_get(Tbl', 0) = "a"
           /\ HashTable_get(Tbl', ExampleSize) = "b"
     /\ (/\ cls = "DoubleHash"
         /\ dh.values = [NewDoubleHash(ExampleSize, dh.lim_charge).values
                           EXCEPT ![0] = 0]
         /\ dh'.call # dh.call
         /\ dh'.call.key = ExampleSize /\ dh'.call.data = ExampleSize)
        => /\ dh'.call.ret \in DHSlots(dh)
           /\ \E i \in DHSlots(dh), j \in DHSlots(dh) :
                 i # j /\ dh'.values[i] = 0 /\ dh'.values[j] = ExampleSize]_vars

(***************************************************************************)
(* C20: in every HashTable variant and reachable state, "key in map" ends  *)
(* and is True exactly when the key is stored, False otherwise, also in    *)
(* the variants that define no __contains__.                               *)
(***************************************************************************)
C20_InIsStored ==
  last.op = "in" =>
    last.ret = IF Stored(Tbl, last.key) THEN "True" ELSE "False"

(***************************************************************************)
(* C21: get and del_ raise for no integer key in any reachable state of a  *)
(* HashTable, a table with no Empty slot included: every slot they index   *)
(* exists, they examine at most size slots, and an absent key gets the     *)
(* not-found result None.                                                  *)
(***************************************************************************)
C21_GetDelNeverRaise ==
  /\ last.op = "get" =>
        /\ ~last.raised
        /\ \A n \in 1 .. Len(HashTable_get_probes(Tbl, last.key)) :
              HashTable_get_probes(Tbl, last.key)[n] \in Slots(Tbl)
        /\ Len(HashTable_get_probes(Tbl, last.key)) <= size
        /\ ~Stored(Tbl, last.key) => last.ret = None
  /\ last.op = "del_" =>
        /\ ~last.raised
        /\ \A n \in 1 .. Len(HashTable_del_probes(Tbl, last.key)) :
              HashTable_del_probes(Tbl, last.key)[n] \in Slots(Tbl)
        /\ Len(HashTable_del_probes(Tbl, last.key)) <= size
        /\ last.ret = None

\* a get of an absent key went once round a table of three slots, none of
\* them Empty and one of them Deleted, and returned None
C21_Witness ==
  /\ size = 3
  /\ last.op = "get" /\ last.ret = None /\ ~last.raised
  /\ ~Stored(Tbl, last.key)
  /\ \A i \in Slots(Tbl) : _keys[i] # _EMPTY
  /\ \E i \in Slots(Tbl) : _keys[i] = _DELETED
  /\ \E i \in Slots(Tbl) : Occupied(Tbl, i)

(***************************************************************************)
(* C22: along every sequence of put calls alone (no del_) on a HashTable,  *)
(* each key is held by at most one Occupied slot in every state.           *)
(***************************************************************************)
C22_PutsKeepKeysUnique ==
  \A key \in Keys : Cardinality({i \in Slots(Tbl) : _keys[i] = key}) <= 1

\* puts of colliding keys: the key just put sits away from its home slot,
\* in one slot only, and the table is not full
C22_Witness ==
  /\ last.op = "put" /\ ~last.raised
  /\ _len >= 2
  /\ _keys[_hash(Tbl, last.key)] # last.key
  /\ Cardinality({i \in Slots(Tbl) : _keys[i] = last.key}) = 1
  /\ \E i \in Slots(Tbl) : _keys[i] = _EMPTY

(***************************************************************************)
(* C23: a freshly constructed HashTable or ResizableHashTable has every    *)
(* slot Empty and len() = 0, and a get of any key on it returns None.      *)
(***************************************************************************)
C23_FreshTableIsEmpty ==
  /\ [](last.op = "init" =>
          /\ _len = 0
          /\ \A i \in Slots(Tbl) : _keys[i] = _EMPTY
          /\ \A k \in Keys : HashTable_get(Tbl, k) = None)
  /\ [][(last.op = "init" /\ last'.op = "get") =>
          (last'.ret = None /\ _len' = 0)]_vars

\* the first call on a new ResizableHashTable was a get, and it returned
\* None
C23_Witness ==
  /\ cls = "ResizableHashTable"
  /\ last.op = "get" /\ last.ret = None
  /\ _len = 0
  /\ \A i \in Slots(Tbl) : _keys[i] = _EMPTY

(***************************************************************************)
(* C24: get is read-only: a get call leaves _keys, _values, _len and size  *)
(* unchanged, whether it finds the key, reaches an Empty slot or completes *)
(* the probe cycle.                                                        *)
(***************************************************************************)
C24_GetIsReadOnly ==
  [][last'.op = "get" => UNCHANGED <<_keys, _values, _len, size>>]_vars

\* a get found its key behind a tombstone, away from the home slot
C24_Witness ==
  /\ last.op = "get" /\ last.ret # None
  /\ _keys[_hash(Tbl, last.key)] = _DELETED
  /\ Stored(Tbl, last.key)

(***************************************************************************)
(* C25: in every reachable state of the linear-probing HashTable, lookup   *)
(* is complete: for every Occupied slot j holding a key k, no slot on the  *)
(* probe path from the home slot k mod size up to j is Empty, and get(k)   *)
(* finds k.                                                                *)
(***************************************************************************)
ProbePath(t, key, j) ==
  {((key % t.size) + d) % t.size :
     d \in 0 .. (j + t.size - (key % t.size)) % t.size}

C25_LookupIsComplete ==
  \A j \in Slots(Tbl) :
    Occupied(Tbl, j) =>
      /\ \A i \in ProbePath(Tbl, _keys[j], j) : _keys[i] # _EMPTY
      /\ HashTable_get(Tbl, _keys[j]) # None

\* a key sits two slots behind its home slot, behind a tombstone, and an
\* Empty slot has never been in between
C25_Witness ==
  /\ size = 3
  /\ \E j \in Slots(Tbl) :
        /\ Occupied(Tbl, j)
        /\ Cardinality(ProbePath(Tbl, _keys[j], j)) = 3
        /\ \E i \in ProbePath(Tbl, _keys[j], j) : _keys[i] = _DELETED
        /\ HashTable_get(Tbl, _keys[j]) = _values[j]

(***************************************************************************)
(* C26: a put that raises the table-full ValueError leaves _keys, _values, *)
(* _len and size as they were before the call.                             *)
(***************************************************************************)
C26_FailedPutChangesNothing ==
  [][(last'.op = "put" /\ last'.raised) =>
       UNCHANGED <<_keys, _values, _len, size>>]_vars

\* a put raised on a table of three slots, each Occupied by another key
C26_Witness ==
  /\ size = 3
  /\ last.op = "put" /\ last.raised
  /\ \A i \in Slots(Tbl) : Occupied(Tbl, i) /\ _keys[i] # last.key
  /\ _len = 3

(***************************************************************************)
(* C27: del_(k) of an absent key leaves _keys, _values and _len unchanged; *)
(* del_(k) of a present key changes exactly one slot, whose key and value  *)
(* both become the Deleted sentinel, takes exactly 1 off _len, and turns   *)
(* no slot into Empty.                                                     *)
(***************************************************************************)
C27_DelChangesOneSlot ==
  [][last'.op = "del_" =>
       /\ size' = size
       /\ ~Stored(Tbl, last'.key) => UNCHANGED <<_keys, _values, _len>>
       /\ Stored(Tbl, last'.key) =>
             /\ _len' = _len - 1
             /\ \E j \in Slots(Tbl) :
                   /\ _keys[j] = last'.key
                   /\ _keys'[j] = _DELETED
                   /\ _values'[j] = _DELETED_VAL
                   /\ \A i \in Slots(Tbl) \ {j} :
                         _keys'[i] = _keys[i] /\ _values'[i] = _values[i]
       /\ \A i \in Slots(Tbl) : _keys'[i] = _EMPTY => _keys[i] = _EMPTY]_vars

\* a del_ took one of two slots that held the same key: one tombstone
\* more, one entry less, and the other slot still holds the key
C27_Witness ==
  /\ last.op = "del_"
  /\ Stored(Tbl, last.key)
  /\ _values[_hash(Tbl, last.key)] = _DELETED_VAL
  /\ _len = 1
  /\ size = 3

(***************************************************************************)
(* C28: in every state of a ResizableHashTable between two public calls    *)
(* the occupied count is strictly below the resize threshold of the        *)
(* capacity (3 * _len < 2 * size), so an Empty or Deleted slot exists; the *)
(* capacity is 8 * 2^n and never decreases, not even after a deletion.     *)
(***************************************************************************)
RECURSIVE IsCapacity(_)
IsCapacity(n) ==
  n = MIN_SIZE \/ (n > MIN_SIZE /\ n % 2 = 0 /\ IsCapacity(n \div 2))

C28_BelowThresholdBetweenCalls ==
  /\ [](cls = "ResizableHashTable" =>
          /\ 3 * _len < 2 * size
          /\ \E i \in Slots(Tbl) : ~Occupied(Tbl, i)
          /\ IsCapacity(size))
  /\ [][size' >= size]_vars

\* a del_ on a table that has grown: the capacity stays 16
C28_Witness ==
  /\ cls = "ResizableHashTable"
  /\ size = 2 * MIN_SIZE
  /\ last.op = "del_"
  /\ \E i \in Slots(Tbl) : _keys[i] = _DELETED
  /\ 3 * _len < 2 * MIN_SIZE

(***************************************************************************)
(* C29: one ResizableHashTable.put runs at most one _resize: no replayed   *)
(* put starts a nested resize, the capacity exactly doubles, the Occupied  *)
(* entries of the old arrays are replayed in slot order, and the table     *)
(* after the resize holds no Deleted slot.                                 *)
(***************************************************************************)
\* the table after HashTable.put of the Occupied entries of old, from slot
\* i on and in slot order, into t
RECURSIVE PutAll(_, _, _, _)
PutAll(v, old, i, t) ==
  IF i >= old.size
  THEN t
  ELSE IF Occupied(old, i)
  THEN PutAll(v, old, i + 1,
              HashTable_put(v, t, old._keys[i], old._values[i]).t)
  ELSE PutAll(v, old, i + 1, t)

C29_OneResizePerPut ==
  [][(cls = "ResizableHashTable" /\ last'.op = "put" /\ last'.resizes >= 1) =>
       /\ last'.resizes = 1
       /\ ~last'.raised
       /\ size' = 2 * size
       /\ \A i \in Slots(Tbl') : _keys'[i] # _DELETED
       /\ \E mid \in {BeforeResize(last'.key, last'.value)} :
            Tbl' = PutAll(variant, mid, 0, NewTable(2 * size))]_vars

\* a put resized a table after a del_ call: six distinct keys, the two of
\* home slot 0 among them, lie in sixteen slots, none of them Deleted
C29_Witness ==
  /\ cls = "ResizableHashTable"
  /\ last.op = "put" /\ last.resizes = 1
  /\ ndel >= 1
  /\ size = 2 * MIN_SIZE
  /\ _len = 6
  /\ Stored(Tbl, 0) /\ Stored(Tbl, MIN_SIZE)
  /\ \A i \in Slots(Tbl) : _keys[i] # _DELETED

====
